---- MODULE Spec2Model ----
(***************************************************************************)
(* Verification model of the chatllama RLHF trainer (nebuly):              *)
(*   - check_model_family          (trainer.py)                            *)
(*   - ActorCritic.generate and the rollout body of RLTrainer.train        *)
(*   - RLTrainer.learn             (the PPO mini-batch loop)               *)
(*   - BaseTrainer.save_checkpoint / load_checkpoint and the resume logic  *)
(*     of RLTrainer.train and RewardTrainer.train                          *)
(*                                                                         *)
(* Four specifications share the module:                                   *)
(*   SpecFamily   the pure function check_model_family on pairs of names   *)
(*   SpecRollout  one rollout timestep (generate, reward, Memory, log)     *)
(*   SpecLearn    one call of learn(), one action per mini-batch           *)
(*   Spec         the trainer life cycle: construct, train, checkpoint,    *)
(*                process stop and restart                                 *)
(* Each specification leaves the variables of the others at their idle     *)
(* values.                                                                 *)
(***************************************************************************)
EXTENDS Integers, Sequences, FiniteSets, TLC

VARIABLES
    \* ---- check_model_family ----
    famPc,          \* "idle" | "call" | "done"
    config1,        \* config1.model, a name (sequence of characters)
    config2,        \* config2.model
    famResult       \* the returned bool, or "none"

famVars == <<famPc, config1, config2, famResult>>

VARIABLES
    \* ---- one rollout timestep of RLTrainer.train ----
    rollPc,             \* "idle" | "sample" | "generated" | "stored"
    cfgModels,          \* [actor, critic, reward]: config.<role>.model
    num_examples,       \* config.trainer.num_examples
    states_actor,       \* one row of the prompt under the actor tokenizer
    states_critic,      \* one row of the prompt under the critic tokenizer
    gen,                \* the tuple returned by ActorCritic.generate, or NoGen
    roll_memories,      \* the Memory records appended by this timestep
    roll_log            \* the conversation-log entries appended by this timestep

rollVars == <<rollPc, cfgModels, num_examples, states_actor, states_critic, gen,
              roll_memories, roll_log>>

VARIABLES
    \* ---- the trainer object and one call of RLTrainer.learn ----
    self,               \* the trainer: mode, scheduler, model_engine, optimizer,
                        \* actor, critic, training_stats
    lrn                 \* the frame of learn(): its arguments, loop position,
                        \* the losses of the current mini-batch and what was run

learnVars == <<self, lrn>>

VARIABLES
    \* ---- the trainer life cycle ----
    config,             \* the configuration the trainers are built from
    disk,               \* the checkpoint folder: the most recent checkpoint
                        \* (or None) and whether its file is damaged
    trn,                \* the frame of train(): loop position, counters,
                        \* memories, what load_checkpoint found and returned
    calls               \* number of train() calls made so far

lifeVars == <<config, disk, trn, calls>>

VARIABLES
    \* ---- single calls of a function or method ----
    call,               \* the function called and its arguments
    ret                 \* what the call returned or raised

pureVars == <<call, ret>>

vars == <<famVars, rollVars, learnVars, lifeVars, pureVars>>

\* Python's None, and the values of the variables of a part that is not run
None == [is_none |-> TRUE]
NoGen == [none |-> TRUE]
NoLearn == [pc |-> "idle"]

FamIdle == famPc = "idle" /\ config1 = <<>> /\ config2 = <<>> /\ famResult = "none"

RollIdle ==
    /\ rollPc = "idle"
    /\ cfgModels = [actor |-> <<>>, critic |-> <<>>, reward |-> <<>>]
    /\ num_examples = 0
    /\ states_actor = <<>>
    /\ states_critic = <<>>
    /\ gen = NoGen
    /\ roll_memories = <<>>
    /\ roll_log = <<>>

LearnIdle == self = None /\ lrn = NoLearn

NoTrain == [pc |-> "idle"]
NoDisk == [ckpt |-> None, corrupted |-> FALSE, log |-> <<>>]

LifeIdle == config = None /\ disk = NoDisk /\ trn = NoTrain /\ calls = 0

NoCall == [fn |-> "none"]
PureIdle == call = NoCall /\ ret = NoCall

(***************************************************************************)
(* Strings are sequences of one-character strings, so that str.split and   *)
(* the "in" test are computed, not assumed.                                *)
(***************************************************************************)
MaxNameLen == 3

Alphabet == {"g", "o", "/", "-"}

RECURSIVE SeqsUpTo(_)
SeqsUpTo(n) ==
    IF n = 0 THEN {<<>>}
    ELSE LET shorter == SeqsUpTo(n - 1)
         IN  shorter \cup {Append(s, c) : s \in {t \in shorter : Len(t) = n - 1}, c \in Alphabet}

Names == SeqsUpTo(MaxNameLen) \ {<<>>}

\* "sep in s"
Contains(s, sep) == \E i \in 1..Len(s) : s[i] = sep

\* index of the first occurrence of sep in s (s contains sep)
FirstIndex(s, sep) == CHOOSE i \in 1..Len(s) : s[i] = sep /\ \A j \in 1..(i - 1) : s[j] # sep

\* Python's s.split(sep) for a one-character separator: the list of the
\* segments between the separators, empty segments included.
RECURSIVE Split(_, _)
Split(s, sep) ==
    IF ~Contains(s, sep) THEN <<s>>
    ELSE LET i == FirstIndex(s, sep)
         IN  <<SubSeq(s, 1, i - 1)>> \o Split(SubSeq(s, i + 1, Len(s)), sep)

\* The shared-tokenizer catalog hf_models of chatllama/rlhf/model_list.py:
\* Hugging Face model identifiers, "name" or "namespace/name".
hf_models ==
    { <<"g">>, <<"o">>, <<"g", "-", "o">>, <<"o", "-", "g">>,
      <<"o", "/", "g">>, <<"g", "/", "o">> }

\* check_model_family with the namespace stripped from the first name only.
check_model_family_onesided(c1, c2) ==
    IF (c1 \in hf_models) /\ (c2 \in hf_models)
    THEN LET model_name1 == IF Contains(c1, "/") THEN Split(c1, "/")[2] ELSE c1
         IN  Split(model_name1, "-")[1] = Split(c2, "-")[1]
    ELSE IF (c1 \notin hf_models) /\ (c2 \notin hf_models)
    THEN TRUE
    ELSE FALSE

\* check_model_family that accepts any pair outside the both-in-catalog case.
check_model_family_lenient(c1, c2) ==
    IF (c1 \in hf_models) /\ (c2 \in hf_models)
    THEN LET model_name1 == IF Contains(c1, "/") THEN Split(c1, "/")[2] ELSE c1
             model_name2 == IF Contains(c2, "/") THEN Split(c2, "/")[2] ELSE c2
         IN  Split(model_name1, "-")[1] = Split(model_name2, "-")[1]
    ELSE TRUE

\* trainer.py:101-134
check_model_family(c1, c2) ==
    IF (c1 \in hf_models) /\ (c2 \in hf_models)
    THEN LET model_name1 == IF Contains(c1, "/") THEN Split(c1, "/")[2] ELSE c1
             model_name2 == IF Contains(c2, "/") THEN Split(c2, "/")[2] ELSE c2
         IN  Split(model_name1, "-")[1] = Split(model_name2, "-")[1]
    ELSE IF (c1 \notin hf_models) /\ (c2 \notin hf_models)
    THEN TRUE
    ELSE FALSE

(***************************************************************************)
(* One rollout timestep: trainer.py:763-879 with ActorCritic.generate      *)
(* (trainer.py:231-328) and ActorCritic.forward (trainer.py:166-229).      *)
(*                                                                         *)
(* A token is recorded by its origin: "p" for a token of the prompt, "a"   *)
(* for a token of the generated completion.  All rows of a batch have the  *)
(* same shape, so one row stands for the shape of the batch and the row    *)
(* index tells the samples apart.  A tokenizer is an opaque codec: the     *)
(* number of tokens it needs for the prompt and for the completion is an   *)
(* input, the same for two models of one family.                           *)
(***************************************************************************)
MaxTokLen == 3
MaxExamples == 2

\* the model names the rollout is run with: two names of one catalog
\* family, one of another catalog family, one outside the catalog
RolloutModels == { <<"g">>, <<"o", "/", "g">>, <<"o">>, <<"g", "g">> }

Repeat(tag, n) == [i \in 1..n |-> tag]

\* Python's x[-k:] on a sequence: the last k elements; the whole sequence
\* when k = 0 (x[-0:] is x[0:]) and when k is at least the length.
TrailingSlice(x, k) ==
    IF k = 0 \/ k >= Len(x) THEN x ELSE SubSeq(x, Len(x) - k + 1, Len(x))

\* tokenizer(inputs, padding=True, ...)["input_ids"]: the prompt as lenP tokens
Tokenize(lenP) == Repeat("p", lenP)

\* ActorModel.generate (chatllama/rlhf/actor.py): the generated tokens and
\* the full sequence [states, actions]
ActorGenerate(states, lenA) ==
    [actions |-> Repeat("a", lenA), sequences |-> states \o Repeat("a", lenA)]

\* trainer.py:58-95: decode, strip pad and eos, encode with tokenizer2,
\* which needs lenP tokens for the prompt text and lenA for the completion
change_tokenization(lenP, lenA) == Repeat("p", lenP) \o Repeat("a", lenA)

\* the output of a model for one row: one item per position of the sequence,
\* named by the position it belongs to
PerPosition(seq) == [pos \in 1..Len(seq) |-> pos]

\* trainer.py:200-229
ActorCritic_forward(sequences_actor, sequences_critic, action_len_actor, action_len_critic) ==
    [ actions_logits |-> TrailingSlice(PerPosition(sequences_actor), action_len_actor),
      values         |-> TrailingSlice(PerPosition(sequences_critic), action_len_critic) ]

\* generate with the critic's action length taken from the re-encoded
\* sequence (the number of its completion tokens)
ActorCritic_generate_counted(st_actor, st_critic, use_same_tokenizer, lenA, lenPc, lenAc) ==
    LET g == ActorGenerate(st_actor, lenA)
        action_len_actor == Len(g.actions)
        sequences_critic == IF use_same_tokenizer THEN g.sequences
                            ELSE change_tokenization(lenPc, lenAc)
        action_len_critic == IF use_same_tokenizer THEN action_len_actor ELSE lenAc
        f == ActorCritic_forward(g.sequences, sequences_critic,
                                 action_len_actor, action_len_critic)
    IN  [ actions |-> g.actions, actions_logits |-> f.actions_logits, values |-> f.values,
          sequences_actor |-> g.sequences, sequences_critic |-> sequences_critic,
          action_len_actor |-> action_len_actor, action_len_critic |-> action_len_critic ]

\* trainer.py:257-328.  lenA: tokens the actor generates; lenPc, lenAc: tokens
\* the critic tokenizer needs for the prompt and for the completion.
ActorCritic_generate(st_actor, st_critic, use_same_tokenizer, lenA, lenPc, lenAc) ==
    LET g == ActorGenerate(st_actor, lenA)
        action_len_actor == Len(g.actions)
        sequences_critic == IF use_same_tokenizer THEN g.sequences
                            ELSE change_tokenization(lenPc, lenAc)
        action_len_critic == IF use_same_tokenizer THEN action_len_actor
                             ELSE Len(st_critic)
        f == ActorCritic_forward(g.sequences, sequences_critic,
                                 action_len_actor, action_len_critic)
    IN  [ actions |-> g.actions, actions_logits |-> f.actions_logits, values |-> f.values,
          sequences_actor |-> g.sequences, sequences_critic |-> sequences_critic,
          action_len_actor |-> action_len_actor, action_len_critic |-> action_len_critic ]

\* trainer.py:804-825: the sequence the reward model scores
RewardSequence(models, g, lenPr, lenAr) ==
    IF check_model_family(models.actor, models.reward) THEN g.sequences_actor
    ELSE IF check_model_family(models.critic, models.reward) THEN g.sequences_critic
    ELSE change_tokenization(lenPr, lenAr)

\* trainer.py:827-834: RewardModel.forward gives one reward per position of
\* the scored sequence; the trailing action_len_critic of them are kept
RolloutRewards(models, g, lenPr, lenAr) ==
    TrailingSlice(PerPosition(RewardSequence(models, g, lenPr, lenAr)), g.action_len_critic)

\* trainer.py:836-852: the Memory of sample i; a reward is named by its
\* sample and its position in the scored sequence
MemoryOf(i, st_actor, g, rewards) ==
    [ sample |-> i,
      states_actor |-> st_actor,
      actions |-> g.actions,
      values |-> g.values,
      rewards |-> [k \in 1..Len(rewards) |-> <<i, rewards[k]>>],
      actions_log_probs |-> g.actions_logits,
      sequences_actor |-> g.sequences_actor,
      sequences_critic |-> g.sequences_critic,
      action_len_actor |-> g.action_len_actor,
      action_len_critic |-> g.action_len_critic ]

\* trainer.py:763-796: sample, tokenize for actor and critic, generate
RolloutGenerate ==
    /\ rollPc = "sample"
    /\ \E lenPa, lenA, lenPc, lenAc \in 1..MaxTokLen :
         LET same == check_model_family(cfgModels.actor, cfgModels.critic)
         IN  /\ same => (lenPc = lenPa /\ lenAc = lenA)
             /\ states_actor' = Tokenize(lenPa)
             /\ states_critic' = Tokenize(lenPc)
             /\ gen' = ActorCritic_generate(Tokenize(lenPa), Tokenize(lenPc), same,
                                            lenA, lenPc, lenAc)
    /\ rollPc' = "generated"
    /\ UNCHANGED <<cfgModels, num_examples, roll_memories, roll_log>>
    /\ UNCHANGED <<famVars, learnVars, lifeVars, pureVars>>

\* trainer.py:798-879: score, slice the rewards, store one Memory and log
\* one conversation entry per sample
RolloutStore ==
    /\ rollPc = "generated"
    /\ \E lenPr, lenAr \in 1..MaxTokLen :
         LET rewards == RolloutRewards(cfgModels, gen, lenPr, lenAr)
             reward  == [i \in 1..num_examples |-> <<i, rewards[Len(rewards)]>>]
         IN  /\ roll_memories' =
                    [i \in 1..num_examples |-> MemoryOf(i, states_actor, gen, rewards)]
             /\ roll_log' =
                    [i \in 1..num_examples |-> [sample |-> i, reward |-> reward[i]]]
    /\ rollPc' = "stored"
    /\ UNCHANGED <<cfgModels, num_examples, states_actor, states_critic, gen>>
    /\ UNCHANGED <<famVars, learnVars, lifeVars, pureVars>>

InitRollout ==
    /\ PureIdle
    /\ FamIdle
    /\ LearnIdle
    /\ LifeIdle
    /\ rollPc = "sample"
    /\ cfgModels \in [actor : RolloutModels, critic : RolloutModels, reward : RolloutModels]
    /\ num_examples \in 1..MaxExamples
    /\ states_actor = <<>>
    /\ states_critic = <<>>
    /\ gen = NoGen
    /\ roll_memories = <<>>
    /\ roll_log = <<>>

NextRollout == RolloutGenerate \/ RolloutStore

SpecRollout == InitRollout /\ [][NextRollout]_vars

(***************************************************************************)
(* RLTrainer.learn: trainer.py:506-698, BaseTrainer.setup_deepspeed,       *)
(* setup_accelerate and append_training_stats (base_model.py:515-592).     *)
(*                                                                         *)
(* Parameters, optimizer state and scheduler state are recorded by the     *)
(* number of updates they have received; a loss is recorded as "finite"    *)
(* or "nan" (its value is the opaque result of the model's forward pass).  *)
(***************************************************************************)
MaxBuffer == 4
MaxBatch == 2
MaxEpochs == 2

Modes == {"native", "accelerate", "deepspeed"}

NoStats == [training_loss |-> <<>>, training_accuracy |-> <<>>, value_loss |-> <<>>,
            validation_loss |-> <<>>, validation_accuracy |-> <<>>]

\* RLTrainer.__init__ (trainer.py:458-504) after BaseTrainer.__init__
\* (base_model.py:449-505)
NewRLTrainer(mode, lora_actor, lora_critic) ==
    [ kind |-> "rl",
      mode |-> mode,
      accelerate_enable |-> (mode = "accelerate"),
      deepspeed_enable |-> (mode = "deepspeed"),
      scheduler |-> None,
      model_engine |-> None,
      accelerator |-> None,
      optimizer |-> [optim_steps |-> 0],
      actor |-> 0,
      critic |-> 0,
      lora_peft |-> lora_actor,
      critic_lora_peft |-> lora_critic,
      conversation_log |-> <<>>,
      training_stats |-> NoStats ]

\* DataLoader(dataset, batch_size): consecutive chunks in insertion order,
\* the last one shorter when the size is no multiple of the batch size
RECURSIVE Batches(_, _)
Batches(data, batch_size) ==
    IF data = <<>> THEN <<>>
    ELSE IF Len(data) <= batch_size THEN <<data>>
    ELSE <<SubSeq(data, 1, batch_size)>>
             \o Batches(SubSeq(data, batch_size + 1, Len(data)), batch_size)

\* append_training_stats with every given value appended
append_training_stats_each(stats, training_loss, value_loss) ==
    [stats EXCEPT !.training_loss = IF training_loss # None THEN Append(@, training_loss) ELSE @,
                  !.value_loss = IF value_loss # None THEN Append(@, value_loss) ELSE @]

\* base_model.py:515-543, for the two keywords learn() passes
append_training_stats(stats, training_loss, value_loss) ==
    IF training_loss # None
    THEN [stats EXCEPT !.training_loss = Append(@, training_loss)]
    ELSE IF value_loss # None
    THEN [stats EXCEPT !.value_loss = Append(@, value_loss)]
    ELSE stats

\* trainer.py:523-542: dataset, dataloader, scheduler, deepspeed, accelerate
LearnSetupStep(tr, memories, batch_size, epochs) ==
    LET frame == [ pc |-> "run", err |-> "", memories |-> memories,
                   batch_size |-> batch_size, epochs |-> epochs,
                   batches |-> Batches(memories, batch_size),
                   epoch |-> 0, k |-> 0,
                   policy_loss |-> "none", value_loss |-> "none",
                   forwarded |-> <<>>, steps |-> <<>> ]
    IN  IF Len(memories) \div batch_size <= 0
        \* CosineAnnealingWarmRestarts refuses T_0 = 0
        THEN [self |-> tr, lrn |-> [frame EXCEPT !.pc = "raised", !.err = "T_0"]]
        ELSE [ self |-> [tr EXCEPT !.scheduler = [sched_steps |-> 0],
                                   !.model_engine =
                                       IF tr.deepspeed_enable THEN [engine |-> TRUE] ELSE None,
                                   !.accelerator =
                                       IF tr.accelerate_enable THEN [accelerator |-> TRUE] ELSE None],
               lrn  |-> frame ]

\* the position after mini-batch k of epoch e
Advance(frame) ==
    IF frame.k + 1 < Len(frame.batches)
    THEN [frame EXCEPT !.k = @ + 1]
    ELSE [frame EXCEPT !.k = 0, !.epoch = @ + 1]

\* the backward pass and the steps of one mini-batch, trainer.py:661-681
BackwardAndStep(tr) ==
    IF tr.deepspeed_enable
    THEN [ self |-> [tr EXCEPT !.actor = @ + 1, !.critic = @ + 1,
                               !.optimizer = [optim_steps |-> @.optim_steps + 1],
                               !.scheduler = [sched_steps |-> @.sched_steps + 1]],
           backward |-> "loss", via |-> "model_engine" ]
    ELSE IF tr.accelerate_enable
    THEN [ self |-> [tr EXCEPT !.actor = @ + 1, !.critic = @ + 1,
                               !.optimizer = [optim_steps |-> @.optim_steps + 1],
                               !.scheduler = [sched_steps |-> @.sched_steps + 1]],
           backward |-> "loss", via |-> "accelerator" ]
    ELSE [ self |-> [tr EXCEPT !.critic = @ + 1,
                               !.optimizer = [optim_steps |-> @.optim_steps + 1],
                               !.scheduler = [sched_steps |-> @.sched_steps + 1]],
           backward |-> "value_loss", via |-> "torch" ]

\* one mini-batch with the check of the value loss left out
LearnBatchStep_unchecked(tr, frame, policy_loss, value_loss) ==
    LET batch == frame.batches[frame.k + 1]
    IN  IF Len(batch) # 1
        THEN [self |-> tr, lrn |-> [frame EXCEPT !.pc = "raised", !.err = "item"]]
        ELSE
        LET fwd == [frame EXCEPT !.forwarded = Append(@, [epoch |-> frame.epoch, batch |-> batch]),
                                 !.policy_loss = policy_loss, !.value_loss = "none"]
        IN  IF policy_loss = "nan"
            THEN [self |-> tr, lrn |-> [fwd EXCEPT !.pc = "raised", !.err = "Policy Loss is nan"]]
            ELSE
            LET b == BackwardAndStep(tr)
                done == [fwd EXCEPT !.value_loss = value_loss,
                             !.steps = Append(@, [epoch |-> frame.epoch, k |-> frame.k,
                                                  backward |-> b.backward, via |-> b.via])]
            IN  [ self |-> [b.self EXCEPT !.training_stats =
                                append_training_stats(@, [item |-> "loss"], [item |-> "value_loss"])],
                  lrn  |-> Advance(done) ]

\* trainer.py:544-695, one iteration of the inner loop: the mini-batch
\* frame.k of epoch frame.epoch, whose two losses come out as given
LearnBatchStep(tr, frame, policy_loss, value_loss) ==
    LET batch == frame.batches[frame.k + 1]
    IN  IF Len(batch) # 1
        \* action_len_actor.item() on the collated tensor of Len(batch) elements
        THEN [self |-> tr, lrn |-> [frame EXCEPT !.pc = "raised", !.err = "item"]]
        ELSE
        LET fwd == [frame EXCEPT !.forwarded = Append(@, [epoch |-> frame.epoch, batch |-> batch]),
                                 !.policy_loss = policy_loss, !.value_loss = "none"]
        IN  IF policy_loss = "nan"
            THEN [self |-> tr, lrn |-> [fwd EXCEPT !.pc = "raised", !.err = "Policy Loss is nan"]]
            ELSE IF value_loss = "nan"
            THEN [self |-> tr, lrn |-> [fwd EXCEPT !.pc = "raised", !.err = "Value loss is nan",
                                                   !.value_loss = value_loss]]
            ELSE
            LET b == BackwardAndStep(tr)
                done == [fwd EXCEPT !.value_loss = value_loss,
                             !.steps = Append(@, [epoch |-> frame.epoch, k |-> frame.k,
                                                  backward |-> b.backward, via |-> b.via])]
            IN  [ self |-> [b.self EXCEPT !.training_stats =
                                append_training_stats(@, [item |-> "loss"], [item |-> "value_loss"])],
                  lrn  |-> Advance(done) ]

\* learn() is entered: trainer.py:513-542
LearnSetup ==
    /\ lrn.pc = "call"
    /\ LET r == LearnSetupStep(self, lrn.memories, lrn.batch_size, lrn.epochs)
       IN  self' = r.self /\ lrn' = r.lrn
    /\ UNCHANGED <<famVars, rollVars, lifeVars, pureVars>>

\* one mini-batch
LearnBatch ==
    /\ lrn.pc = "run"
    /\ lrn.epoch < lrn.epochs
    /\ \E policy_loss, value_loss \in {"finite", "nan"} :
         LET r == LearnBatchStep(self, lrn, policy_loss, value_loss)
         IN  self' = r.self /\ lrn' = r.lrn
    /\ UNCHANGED <<famVars, rollVars, lifeVars, pureVars>>

\* the loops are over: trainer.py:697-698
LearnEnd ==
    /\ lrn.pc = "run"
    /\ lrn.epoch >= lrn.epochs
    /\ lrn' = [lrn EXCEPT !.pc = "done"]
    /\ UNCHANGED self
    /\ UNCHANGED <<famVars, rollVars, lifeVars, pureVars>>

InitLearn ==
    /\ PureIdle
    /\ FamIdle
    /\ RollIdle
    /\ LifeIdle
    /\ \E mode \in Modes : self = NewRLTrainer(mode, FALSE, FALSE)
    /\ \E n \in 1..MaxBuffer, batch_size \in 1..MaxBatch, epochs \in 1..MaxEpochs :
         lrn = [pc |-> "call", memories |-> [i \in 1..n |-> i],
                batch_size |-> batch_size, epochs |-> epochs]

NextLearn == LearnSetup \/ LearnBatch \/ LearnEnd

SpecLearn == InitLearn /\ [][NextLearn]_vars

InitFamily ==
    /\ PureIdle
    /\ famPc = "call"
    /\ config1 \in Names
    /\ config2 \in Names
    /\ famResult = "none"
    /\ RollIdle
    /\ LearnIdle
    /\ LifeIdle

CheckModelFamilyCall ==
    /\ famPc = "call"
    /\ famResult' = check_model_family(config1, config2)
    /\ famPc' = "done"
    /\ UNCHANGED <<config1, config2>>
    /\ UNCHANGED <<rollVars, learnVars, lifeVars, pureVars>>

NextFamily == CheckModelFamilyCall

SpecFamily == InitFamily /\ [][NextFamily]_vars

(***************************************************************************)
(* The trainer life cycle: BaseTrainer.save_checkpoint and load_checkpoint *)
(* (base_model.py:594-808), RLTrainer.train (trainer.py:700-906) and       *)
(* RewardTrainer.train (reward.py:206-421).                                *)
(*                                                                         *)
(* A checkpoint records parameters, optimizer and scheduler by their       *)
(* update counters.  The checkpoint folder keeps the most recent           *)
(* checkpoint; a damaged file is one that torch.load or the DeepSpeed      *)
(* engine cannot read.  What an attribute holds is modelled as the code    *)
(* assigns it (scheduler and model_engine are None until learn() sets      *)
(* them); which attribute or keyword name a call site spells is not.       *)
(***************************************************************************)
MaxEpisodes == 3
MaxTimesteps == 2
MaxCkptSteps == 2
MaxIters == 2
MaxLearnEpochs == 1
MaxTrainCalls == 2

\* current_step: Optional[int] = None
NoStep == 0 - 1

\* RewardTrainer.__init__ (reward.py:159-204) and BaseTrainer.__init__
NewRewardTrainer(mode, lora) ==
    [ kind |-> "reward",
      mode |-> mode,
      accelerate_enable |-> (mode = "accelerate"),
      deepspeed_enable |-> (mode = "deepspeed"),
      scheduler |-> [sched_steps |-> 0],
      model_engine |-> None,
      accelerator |-> None,
      optimizer |-> [optim_steps |-> 0],
      model |-> 0,
      lora_peft |-> lora,
      training_stats |-> NoStats ]

\* the result of a call that returns or raises
Returned(tr, value) == [raised |-> FALSE, err |-> "", value |-> value, self |-> tr]
Raised(tr, err) == [raised |-> TRUE, err |-> err, value |-> None, self |-> tr]

\* base_model.py:594-681.  The value is the checkpoint written.
save_checkpoint(tr, current_epoch, current_step) ==
    IF tr.mode = "deepspeed"
    THEN IF tr.model_engine = None
         THEN Raised(tr, "AttributeError")
         ELSE Returned(tr,
                [ format |-> "deepspeed",
                  client_state |-> IF current_step = NoStep
                                   THEN [episode |-> current_epoch]
                                   ELSE [epoch |-> current_epoch, step |-> current_step],
                  engine |-> IF tr.kind = "rl"
                             THEN [actor |-> tr.actor, critic |-> tr.critic,
                                   optimizer |-> tr.optimizer, scheduler |-> tr.scheduler]
                             ELSE [model |-> tr.model,
                                   optimizer |-> tr.optimizer, scheduler |-> tr.scheduler] ])
    ELSE IF tr.kind = "rl"
    THEN IF tr.scheduler = None
         THEN Raised(tr, "AttributeError")
         ELSE Returned(tr,
                [ format |-> "torch",
                  model |-> tr.actor,
                  critic |-> tr.critic,
                  \* base_model.py:658-659
                  optimizer |-> tr.scheduler,
                  scheduler |-> tr.optimizer,
                  training_stats |-> tr.training_stats,
                  episode |-> current_epoch,
                  lora_peft |-> tr.lora_peft,
                  critic_lora_peft |-> tr.critic_lora_peft ])
    ELSE Returned(tr,
                [ format |-> "torch",
                  model |-> tr.model,
                  optimizer |-> tr.optimizer,
                  scheduler |-> tr.scheduler,
                  training_stats |-> tr.training_stats,
                  epoch |-> current_epoch,
                  step |-> current_step,
                  lora_peft |-> tr.lora_peft ])

\* torch.optim.Optimizer.load_state_dict reads state_dict["param_groups"]:
\* a dictionary that is not an optimizer's state raises KeyError
IsOptimizerState(state_dict) == "optim_steps" \in DOMAIN state_dict

\* torch's scheduler load_state_dict is self.__dict__.update(state_dict):
\* the scheduler's own entries change only if the dictionary has them
scheduler_load_state_dict(scheduler, state_dict) ==
    IF "sched_steps" \in DOMAIN state_dict THEN state_dict ELSE scheduler

\* load_checkpoint without the two try/except blocks
load_checkpoint_uncaught(tr, d) ==
    IF d.ckpt = None
    THEN Returned(tr, <<0, 0>>)
    ELSE IF tr.mode = "deepspeed"
    THEN IF tr.model_engine = None
         THEN Raised(tr, "AttributeError")
         ELSE IF d.corrupted
         THEN Raised(tr, "corrupted")
         ELSE LET restored ==
                    IF tr.kind = "rl"
                    THEN [tr EXCEPT !.actor = d.ckpt.engine.actor,
                                    !.critic = d.ckpt.engine.critic,
                                    !.optimizer = d.ckpt.engine.optimizer,
                                    !.scheduler = d.ckpt.engine.scheduler]
                    ELSE [tr EXCEPT !.model = d.ckpt.engine.model,
                                    !.optimizer = d.ckpt.engine.optimizer,
                                    !.scheduler = d.ckpt.engine.scheduler]
                  client_state == d.ckpt.client_state
              IN  IF "episode" \in DOMAIN client_state
                  THEN Returned(restored, <<client_state.episode, 0>>)
                  ELSE Returned(restored, <<client_state.epoch, client_state.step>>)
    ELSE IF d.corrupted
    THEN Raised(tr, "corrupted")
    ELSE LET checkpoint == d.ckpt
             tr1 == [tr EXCEPT !.optimizer = checkpoint.optimizer]
         IN  IF ~IsOptimizerState(checkpoint.optimizer)
             THEN Raised(tr, "KeyError")
             ELSE IF tr.scheduler = None
             THEN Raised(tr1, "AttributeError")
             ELSE
             LET tr2 == [tr1 EXCEPT !.scheduler =
                             scheduler_load_state_dict(@, checkpoint.scheduler)]
             IN  IF tr.kind = "rl"
                 THEN IF checkpoint.lora_peft # tr.lora_peft
                      THEN Returned(tr2, <<0, 0>>)
                      ELSE IF checkpoint.critic_lora_peft # tr.critic_lora_peft
                      THEN Returned(tr2, <<0, 0>>)
                      ELSE Returned([tr2 EXCEPT !.actor = checkpoint.model,
                                                !.critic = checkpoint.critic],
                                    <<checkpoint.episode, 0>>)
                 ELSE IF checkpoint.lora_peft # tr.lora_peft
                      THEN Returned(tr2, <<0, 0>>)
                      ELSE Returned([tr2 EXCEPT !.model = checkpoint.model,
                                                !.training_stats = checkpoint.training_stats],
                                    <<checkpoint.epoch, checkpoint.step + 1>>)

\* base_model.py:683-808.  d is the checkpoint folder: d.ckpt is what
\* ModelLoader.check_model_path finds, None when there is no checkpoint.
load_checkpoint(tr, d) ==
    IF d.ckpt = None
    THEN Returned(tr, <<0, 0>>)
    ELSE IF tr.mode = "deepspeed"
    THEN \* try: self.model_engine.load_checkpoint(path)  except Exception
         IF tr.model_engine = None \/ d.corrupted
         THEN Returned(tr, <<0, 0>>)
         ELSE LET restored ==
                    IF tr.kind = "rl"
                    THEN [tr EXCEPT !.actor = d.ckpt.engine.actor,
                                    !.critic = d.ckpt.engine.critic,
                                    !.optimizer = d.ckpt.engine.optimizer,
                                    !.scheduler = d.ckpt.engine.scheduler]
                    ELSE [tr EXCEPT !.model = d.ckpt.engine.model,
                                    !.optimizer = d.ckpt.engine.optimizer,
                                    !.scheduler = d.ckpt.engine.scheduler]
                  client_state == d.ckpt.client_state
              IN  IF "episode" \in DOMAIN client_state
                  THEN Returned(restored, <<client_state.episode, 0>>)
                  ELSE Returned(restored, <<client_state.epoch, client_state.step>>)
    ELSE \* try: torch.load(path)  except Exception
         IF d.corrupted
         THEN Returned(tr, <<0, 0>>)
         ELSE
         LET checkpoint == d.ckpt
             tr1 == [tr EXCEPT !.optimizer = checkpoint.optimizer]
         IN  \* base_model.py:750
             IF ~IsOptimizerState(checkpoint.optimizer)
             THEN Raised(tr, "KeyError")
             \* base_model.py:751
             ELSE IF tr.scheduler = None
             THEN Raised(tr1, "AttributeError")
             ELSE
             LET tr2 == [tr1 EXCEPT !.scheduler =
                             scheduler_load_state_dict(@, checkpoint.scheduler)]
             IN  IF tr.kind = "rl"
                 THEN IF checkpoint.lora_peft # tr.lora_peft
                      THEN Returned(tr2, <<0, 0>>)
                      ELSE IF checkpoint.critic_lora_peft # tr.critic_lora_peft
                      THEN Returned(tr2, <<0, 0>>)
                      ELSE Returned([tr2 EXCEPT !.actor = checkpoint.model,
                                                !.critic = checkpoint.critic],
                                    <<checkpoint.episode, 0>>)
                 ELSE IF checkpoint.lora_peft # tr.lora_peft
                      THEN Returned(tr2, <<0, 0>>)
                      ELSE Returned([tr2 EXCEPT !.model = checkpoint.model,
                                                !.training_stats = checkpoint.training_stats],
                                    <<checkpoint.epoch, checkpoint.step + 1>>)

\* config.trainer of the actor-critic trainer and the ConfigReward of the
\* reward trainer: the fields train() and learn() read
RLConfigs ==
    [ kind : {"rl"}, mode : Modes,
      num_episodes : 1..MaxEpisodes,
      max_timesteps : 1..MaxTimesteps,
      update_timesteps : 1..MaxTimesteps,
      checkpoint_steps : 1..MaxCkptSteps,
      num_examples : 1..MaxExamples,
      batch_size : 1..MaxBatch,
      epochs : 1..MaxLearnEpochs ]

RewardConfigs ==
    [ kind : {"reward"}, mode : Modes,
      epochs : 1..MaxEpochs,
      n_batches : 1..MaxIters,
      checkpoint_steps : 1..MaxCkptSteps ]

\* the frame of a train() call that has not reached load_checkpoint
TrainFrame ==
    [ pc |-> "start", err |-> "",
      load |-> "not_called", found |-> NoDisk, loaded |-> <<>>,
      start_episode |-> 0, episode |-> 0, timestep |-> 0,
      cnt_timesteps |-> 0, cnt_learn_iter |-> 0, memories |-> <<>>,
      start_epoch |-> 0, start_step |-> 0, epoch |-> 0, i |-> 0,
      cnt_checkpoints |-> 1,
      ran |-> <<>> ]

\* the frame once load_checkpoint has been called and gave r
AfterLoad(frame, d, r) ==
    IF r.raised
    THEN [frame EXCEPT !.pc = "raised", !.err = r.err, !.load = "raised", !.found = d]
    ELSE [frame EXCEPT !.load = "returned", !.found = d, !.loaded = r.value]

\* The conversation log: an append-only sequence of entries kept in a JSON
\* file. An object built on a path starts from the entries the file holds,
\* append adds an entry to the object, save writes the object's entries to
\* the file, and clear empties both.
ConversationLog(file) == file

ConversationLog_append(log, prompt, completion, reward, iteration) ==
    Append(log, [prompt |-> prompt, completion |-> completion,
                 reward |-> reward, iteration |-> iteration])

ConversationLog_save(log, d) == [d EXCEPT !.log = log]

ConversationLog_clear(log) == <<>>

\* a trainer object is built: a process starts
Construct ==
    /\ self = None
    /\ calls < MaxTrainCalls
    /\ \/ /\ config.kind = "rl"
          /\ \E lora_actor, lora_critic \in BOOLEAN :
               self' = [NewRLTrainer(config.mode, lora_actor, lora_critic)
                        EXCEPT !.conversation_log = ConversationLog(disk.log)]
       \/ /\ config.kind = "reward"
          /\ \E lora \in BOOLEAN : self' = NewRewardTrainer(config.mode, lora)
    /\ UNCHANGED <<lrn, config, disk, trn, calls, famVars, rollVars, pureVars>>

\* the process ends, at any point: the trainer object and its frames are gone
Stop ==
    /\ self # None
    /\ self' = None
    /\ lrn' = NoLearn
    /\ trn' = NoTrain
    /\ UNCHANGED <<config, disk, calls, famVars, rollVars, pureVars>>

\* the checkpoint file is damaged while no train() is running
CorruptCheckpoint ==
    /\ trn.pc \in {"idle", "done", "raised"}
    /\ disk.ckpt # None
    /\ ~disk.corrupted
    /\ disk' = [disk EXCEPT !.corrupted = TRUE]
    /\ UNCHANGED <<config, trn, calls, learnVars, famVars, rollVars, pureVars>>

\* only the total number of timesteps is asserted
TrainAsserts_timesteps(cfg) ==
    (cfg.num_episodes * cfg.max_timesteps) % cfg.update_timesteps = 0

\* trainer.py:715-732: the two assertions of train()
TrainAsserts(cfg) ==
    /\ (cfg.num_examples * cfg.update_timesteps) % cfg.batch_size = 0
    /\ (cfg.num_episodes * cfg.max_timesteps) % cfg.update_timesteps = 0

\* the log is emptied on every start, whatever episode load_checkpoint found
ClearOnStart_always(tr, start_episode) ==
    [tr EXCEPT !.conversation_log = ConversationLog_clear(@)]

\* trainer.py:741-742: the log is emptied when training starts at episode 0
ClearOnStart(tr, start_episode) ==
    IF start_episode = 0
    THEN [tr EXCEPT !.conversation_log = ConversationLog_clear(@)]
    ELSE tr

\* trainer.py:700-751: the assertions, load_checkpoint, the counters and the
\* first test of the episode loop
RLTrainStart ==
    /\ self # None
    /\ config.kind = "rl"
    /\ trn.pc \in {"idle", "done", "raised"}
    /\ calls < MaxTrainCalls
    /\ calls' = calls + 1
    /\ IF ~TrainAsserts(config)
       THEN /\ trn' = [TrainFrame EXCEPT !.pc = "raised", !.err = "AssertionError"]
            /\ UNCHANGED <<self, disk>>
       ELSE LET r == load_checkpoint(self, disk)
                f == AfterLoad(TrainFrame, disk, r)
            IN  IF r.raised
                THEN /\ self' = r.self
                     /\ trn' = f
                     /\ UNCHANGED disk
                ELSE /\ trn' = [f EXCEPT !.start_episode = r.value[1],
                                         !.episode = r.value[1],
                                         !.pc = IF r.value[1] < config.num_episodes
                                                THEN "timestep" ELSE "done"]
                     /\ self' = ClearOnStart(r.self, r.value[1])
                     /\ disk' = IF self'.conversation_log = r.self.conversation_log
                                THEN disk
                                ELSE ConversationLog_save(self'.conversation_log, disk)
    /\ UNCHANGED <<lrn, config, famVars, rollVars, pureVars>>

\* the loop position after the body of timestep frame.timestep
AfterTimestep(frame, max_timesteps) ==
    IF frame.timestep + 1 < max_timesteps
    THEN [frame EXCEPT !.timestep = @ + 1, !.pc = "timestep"]
    ELSE [frame EXCEPT !.pc = "episode_end"]

\* the sample of index i of a rollout timestep: its prompt, its completion and
\* the reward of its last position
Prompt(episode, timestep, i) == [input_of |-> <<episode, timestep, i>>]

Completion(episode, timestep, i) == [completion_of |-> <<episode, timestep, i>>]

FinalReward(episode, timestep, i) == [last_reward_of |-> <<episode, timestep, i>>]

\* every entry carries the reward of the first sample
LogSamples_stale(log, episode, timestep, n, cnt_learn_iter) ==
    log \o [i \in 1..n |->
              [prompt |-> Prompt(episode, timestep, i),
               completion |-> Completion(episode, timestep, i),
               reward |-> FinalReward(episode, timestep, 1),
               iteration |-> cnt_learn_iter]]

\* trainer.py:873-879: one entry per sample, in the order of the samples
RECURSIVE LogSamples(_, _, _, _, _)
LogSamples(log, episode, timestep, n, cnt_learn_iter) ==
    IF n = 0 THEN log
    ELSE ConversationLog_append(
             LogSamples(log, episode, timestep, n - 1, cnt_learn_iter),
             Prompt(episode, timestep, n), Completion(episode, timestep, n),
             FinalReward(episode, timestep, n), cnt_learn_iter)

\* trainer.py:753-884: one rollout timestep, num_examples records appended
\* to memories, and the test that starts the learning phase
RLTimestep ==
    /\ trn.pc = "timestep"
    /\ LET cnt == trn.cnt_timesteps + 1
           mems == trn.memories \o
                   [s \in 1..config.num_examples |->
                       [episode |-> trn.episode, timestep |-> trn.timestep, sample |-> s]]
           f == [trn EXCEPT !.cnt_timesteps = cnt, !.memories = mems,
                            !.ran = Append(@, <<trn.episode, trn.timestep>>)]
       IN  IF cnt % config.update_timesteps = 0 /\ cnt # 0
           THEN /\ trn' = [f EXCEPT !.pc = "learn"]
                /\ lrn' = [pc |-> "call", memories |-> mems,
                           batch_size |-> config.batch_size, epochs |-> config.epochs]
           ELSE /\ trn' = AfterTimestep(f, config.max_timesteps)
                /\ UNCHANGED lrn
    /\ self' = [self EXCEPT !.conversation_log =
                    LogSamples(@, trn.episode, trn.timestep,
                               config.num_examples, trn.cnt_learn_iter)]
    /\ UNCHANGED <<config, disk, calls, famVars, rollVars, pureVars>>

\* learn() returns and the timestep counter is left as it is
RLLearnReturn_noreset ==
    /\ trn.pc = "learn"
    /\ lrn.pc \in {"done", "raised"}
    /\ trn' = IF lrn.pc = "raised"
              THEN [trn EXCEPT !.pc = "raised", !.err = lrn.err]
              ELSE AfterTimestep([trn EXCEPT !.memories = <<>>,
                                             !.cnt_learn_iter = @ + 1],
                                 config.max_timesteps)
    /\ lrn' = NoLearn
    /\ disk' = IF lrn.pc = "raised" THEN disk
                ELSE ConversationLog_save(self.conversation_log, disk)
    /\ UNCHANGED <<self, config, calls, famVars, rollVars, pureVars>>

\* trainer.py:885-895: learn() has returned, or has raised
RLLearnReturn ==
    /\ trn.pc = "learn"
    /\ lrn.pc \in {"done", "raised"}
    /\ trn' = IF lrn.pc = "raised"
              THEN [trn EXCEPT !.pc = "raised", !.err = lrn.err]
              ELSE AfterTimestep([trn EXCEPT !.memories = <<>>, !.cnt_timesteps = 0,
                                             !.cnt_learn_iter = @ + 1],
                                 config.max_timesteps)
    /\ lrn' = NoLearn
    /\ disk' = IF lrn.pc = "raised" THEN disk
                ELSE ConversationLog_save(self.conversation_log, disk)
    /\ UNCHANGED <<self, config, calls, famVars, rollVars, pureVars>>

\* trainer.py:897-906 and the next test of the episode loop
RLEpisodeEnd ==
    /\ trn.pc = "episode_end"
    /\ LET next == IF trn.episode + 1 < config.num_episodes
                   THEN [trn EXCEPT !.episode = @ + 1, !.timestep = 0, !.pc = "timestep"]
                   ELSE [trn EXCEPT !.pc = "done"]
       IN  IF trn.episode % config.checkpoint_steps = 0 /\ trn.episode # 0
           THEN LET r == save_checkpoint(self, trn.episode, NoStep)
                IN  IF r.raised
                    THEN /\ trn' = [trn EXCEPT !.pc = "raised", !.err = r.err]
                         /\ UNCHANGED disk
                    ELSE /\ trn' = next
                         /\ disk' = ConversationLog_save(
                                        self.conversation_log,
                                        [disk EXCEPT !.ckpt = r.value,
                                                     !.corrupted = FALSE])
           ELSE /\ trn' = next
                /\ UNCHANGED disk
    /\ UNCHANGED <<learnVars, config, calls, famVars, rollVars, pureVars>>

\* reward.py:206-238: the batch size of the mode, load_checkpoint and the
\* first test of the epoch loop
RewardTrainStart ==
    /\ self # None
    /\ config.kind = "reward"
    /\ trn.pc \in {"idle", "done", "raised"}
    /\ calls < MaxTrainCalls
    /\ calls' = calls + 1
    /\ IF \/ self.mode = "deepspeed" /\ self.model_engine = None
          \/ self.mode = "accelerate" /\ self.accelerator = None
       THEN /\ trn' = [TrainFrame EXCEPT !.pc = "raised", !.err = "AttributeError"]
            /\ UNCHANGED self
       ELSE LET r == load_checkpoint(self, disk)
                f == AfterLoad(TrainFrame, disk, r)
            IN  /\ self' = r.self
                /\ trn' = IF r.raised THEN f
                          ELSE [f EXCEPT !.start_epoch = r.value[1],
                                         !.start_step = r.value[2],
                                         !.epoch = r.value[1],
                                         !.pc = IF r.value[1] < config.epochs
                                                THEN "iter" ELSE "done"]
    /\ UNCHANGED <<lrn, config, disk, famVars, rollVars, pureVars>>

\* the position after iteration frame.i of the dataloader
AfterIteration(frame, n_batches) ==
    IF frame.i + 1 < n_batches
    THEN [frame EXCEPT !.i = @ + 1]
    ELSE [frame EXCEPT !.pc = "epoch_end"]

\* reward.py:318-344: backward pass, optimizer and scheduler step, stats
RewardStep(tr) ==
    [tr EXCEPT !.model = @ + 1,
               !.optimizer = [optim_steps |-> @.optim_steps + 1],
               !.scheduler = [sched_steps |-> @.sched_steps + 1],
               !.training_stats = append_training_stats(@, [item |-> "loss"], None)]

\* reward.py:241-371: one iteration of the dataloader loop
RewardIteration ==
    /\ trn.pc = "iter"
    /\ IF trn.i < trn.start_step
       THEN /\ trn' = AfterIteration(trn, config.n_batches)
            /\ UNCHANGED <<self, disk>>
       ELSE LET tr == RewardStep(self)
                f == [trn EXCEPT !.ran = Append(@, <<trn.epoch, trn.i>>)]
            IN  /\ self' = tr
                /\ IF trn.cnt_checkpoints % config.checkpoint_steps = 0
                   THEN LET r == save_checkpoint(tr, trn.epoch, trn.i)
                        IN  IF r.raised
                            THEN /\ trn' = [f EXCEPT !.pc = "raised", !.err = r.err]
                                 /\ UNCHANGED disk
                            ELSE /\ trn' = AfterIteration([f EXCEPT !.cnt_checkpoints = 1],
                                                          config.n_batches)
                                 /\ disk' = [disk EXCEPT !.ckpt = r.value, !.corrupted = FALSE]
                   ELSE /\ trn' = AfterIteration([f EXCEPT !.cnt_checkpoints = @ + 1],
                                                 config.n_batches)
                        /\ UNCHANGED disk
    /\ UNCHANGED <<lrn, config, calls, famVars, rollVars, pureVars>>

\* reward.py:373-421: start_step is reset, the next test of the epoch loop
RewardEpochEnd ==
    /\ trn.pc = "epoch_end"
    /\ trn' = IF trn.epoch + 1 < config.epochs
              THEN [trn EXCEPT !.start_step = 0, !.epoch = @ + 1, !.i = 0, !.pc = "iter"]
              ELSE [trn EXCEPT !.start_step = 0, !.pc = "done"]
    /\ UNCHANGED <<learnVars, config, disk, calls, famVars, rollVars, pureVars>>

Init ==
    /\ PureIdle
    /\ FamIdle
    /\ RollIdle
    /\ LearnIdle
    /\ config \in RLConfigs \cup RewardConfigs
    /\ disk = NoDisk
    /\ trn = NoTrain
    /\ calls = 0

Next ==
    \/ Construct
    \/ Stop
    \/ CorruptCheckpoint
    \/ RLTrainStart
    \/ RLTimestep
    \/ LearnSetup
    \/ LearnBatch
    \/ LearnEnd
    \/ RLLearnReturn
    \/ RLEpisodeEnd
    \/ RewardTrainStart
    \/ RewardIteration
    \/ RewardEpochEnd

Spec == Init /\ [][Next]_vars

(***************************************************************************)
(* Single calls: a function or method applied once to arguments drawn      *)
(* from bounded sets.                                                      *)
(***************************************************************************)

\* the frame the other parts leave untouched
OthersIdle == FamIdle /\ RollIdle /\ LearnIdle /\ LifeIdle

\* ActorCritic.forward (trainer.py:166-229) on one row: a sequence is its
\* prompt tokens followed by its action tokens
InitForward ==
    /\ OthersIdle
    /\ ret = NoCall
    /\ \E len_actor, len_critic \in 1..MaxTokLen :
         \E action_len_actor \in 0..len_actor, action_len_critic \in 0..len_critic :
            call = [ fn |-> "forward",
                     sequences_actor |-> Repeat("p", len_actor - action_len_actor)
                                         \o Repeat("a", action_len_actor),
                     sequences_critic |-> Repeat("p", len_critic - action_len_critic)
                                          \o Repeat("a", action_len_critic),
                     action_len_actor |-> action_len_actor,
                     action_len_critic |-> action_len_critic ]

ForwardCall ==
    /\ call.fn = "forward"
    /\ ret = NoCall
    /\ ret' = [ fn |-> "forward",
                value |-> ActorCritic_forward(call.sequences_actor, call.sequences_critic,
                                              call.action_len_actor, call.action_len_critic) ]
    /\ UNCHANGED <<call, famVars, rollVars, learnVars, lifeVars>>

NextForward == ForwardCall

SpecForward == InitForward /\ [][NextForward]_vars

\* deepspeed_config_path: None, a path where no file is, the path of a file
ConfigPaths == {"None", "missing", "exists"}

\* the branch that the if/elif chains on the two flags take
\* (trainer.py:665-676, reward.py:214-221)
ModeOf(accelerate_enable, deepspeed_enable) ==
    IF deepspeed_enable THEN "deepspeed"
    ELSE IF accelerate_enable THEN "accelerate" ELSE "native"

\* the constructor without the test of the two flags together
BaseTrainer_init_unchecked(accelerate_enable, deepspeed_enable, deepspeed_config_path) ==
    IF deepspeed_enable /\ deepspeed_config_path = "None" THEN "ValueError"
    ELSE IF deepspeed_enable /\ deepspeed_config_path = "missing" THEN "ValueError"
    ELSE ""

\* base_model.py:466-505: the error the constructor raises, "" when none
BaseTrainer_init(accelerate_enable, deepspeed_enable, deepspeed_config_path) ==
    IF accelerate_enable /\ deepspeed_enable THEN "ValueError"
    ELSE IF deepspeed_enable /\ deepspeed_config_path = "None" THEN "ValueError"
    ELSE IF deepspeed_enable /\ deepspeed_config_path = "missing" THEN "ValueError"
    ELSE ""

\* a trainer is constructed from its flags; the actor-critic trainer then
\* runs learn() on a buffer
InitConstruct ==
    /\ FamIdle /\ RollIdle /\ LifeIdle
    /\ self = None
    /\ lrn = NoLearn
    /\ ret = NoCall
    /\ \E kind \in {"rl", "reward"}, accelerate_enable, deepspeed_enable \in BOOLEAN,
          deepspeed_config_path \in ConfigPaths,
          n \in 1..MaxBuffer, epochs \in 1..MaxEpochs :
         call = [ fn |-> "__init__", kind |-> kind,
                  accelerate_enable |-> accelerate_enable,
                  deepspeed_enable |-> deepspeed_enable,
                  deepspeed_config_path |-> deepspeed_config_path,
                  n |-> n, epochs |-> epochs ]

\* trainer.py:458-504, reward.py:159-204 with BaseTrainer.__init__
ConstructCall ==
    /\ call.fn = "__init__"
    /\ ret = NoCall
    /\ LET err == BaseTrainer_init(call.accelerate_enable, call.deepspeed_enable,
                                   call.deepspeed_config_path)
           mode == ModeOf(call.accelerate_enable, call.deepspeed_enable)
           built == IF call.kind = "rl" THEN NewRLTrainer(mode, FALSE, FALSE)
                    ELSE NewRewardTrainer(mode, FALSE)
       IN  /\ ret' = [fn |-> "__init__", raised |-> err # "", err |-> err]
           /\ self' = IF err # "" THEN None
                      ELSE [built EXCEPT !.accelerate_enable = call.accelerate_enable,
                                         !.deepspeed_enable = call.deepspeed_enable]
           /\ lrn' = IF err = "" /\ call.kind = "rl"
                     THEN [pc |-> "call", memories |-> [i \in 1..call.n |-> i],
                           batch_size |-> 1, epochs |-> call.epochs]
                     ELSE NoLearn
    /\ UNCHANGED <<call, famVars, rollVars, lifeVars>>

NextConstruct == ConstructCall \/ LearnSetup \/ LearnBatch \/ LearnEnd

SpecConstruct == InitConstruct /\ [][NextConstruct]_vars

MaxSeqLen == 6

\* RewardModel.forward (reward.py:29-57): one reward per row and position,
\* named by its row and position
RewardModel_forward(rows, seq_len) ==
    [i \in 1..rows |-> [pos \in 1..seq_len |-> <<i, pos>>]]

\* get_reward refusing a sequence as long as the maximum
get_reward_strict(rows, seq_len, max_sequence_length) ==
    IF seq_len >= max_sequence_length
    THEN [raised |-> TRUE, err |-> "ValueError", forward_calls |-> 0, value |-> <<>>]
    ELSE LET rewards == RewardModel_forward(rows, seq_len)
         IN  [raised |-> FALSE, err |-> "", forward_calls |-> 1,
              value |-> [i \in 1..rows |-> rewards[i][seq_len]]]

\* reward.py:59-80 on a batch of rows sequences of seq_len tokens
get_reward(rows, seq_len, max_sequence_length) ==
    IF seq_len > max_sequence_length
    THEN [raised |-> TRUE, err |-> "ValueError", forward_calls |-> 0, value |-> <<>>]
    ELSE LET rewards == RewardModel_forward(rows, seq_len)
         IN  [raised |-> FALSE, err |-> "", forward_calls |-> 1,
              value |-> [i \in 1..rows |-> rewards[i][seq_len]]]

InitGetReward ==
    /\ OthersIdle
    /\ ret = NoCall
    /\ \E rows \in 1..MaxExamples, seq_len, max_sequence_length \in 1..MaxSeqLen :
         call = [fn |-> "get_reward", rows |-> rows, seq_len |-> seq_len,
                 max_sequence_length |-> max_sequence_length]

GetRewardCall ==
    /\ call.fn = "get_reward"
    /\ ret = NoCall
    /\ ret' = [fn |-> "get_reward",
               out |-> get_reward(call.rows, call.seq_len, call.max_sequence_length)]
    /\ UNCHANGED <<call, famVars, rollVars, learnVars, lifeVars>>

NextGetReward == GetRewardCall

SpecGetReward == InitGetReward /\ [][NextGetReward]_vars

\* trainer.py:827-879, the scoring step of a rollout timestep on a batch of
\* rows sequences of seq_len tokens: train() calls self.reward.forward, keeps
\* the trailing action_len_critic rewards of every row, stores one Memory
\* per row and logs one entry per row with the reward of the last position
rollout_score(rows, seq_len, action_len_critic, max_sequence_length) ==
    LET rewards == RewardModel_forward(rows, seq_len)
        kept == [i \in 1..rows |-> TrailingSlice(rewards[i], action_len_critic)]
    IN  [ raised |-> FALSE, err |-> "", forward_calls |-> 1,
          memories |-> [i \in 1..rows |-> [sample |-> i, rewards |-> kept[i]]],
          log |-> [i \in 1..rows |->
                     [sample |-> i, reward |-> kept[i][Len(kept[i])]]] ]

InitScore ==
    /\ OthersIdle
    /\ ret = NoCall
    /\ \E rows \in 1..MaxExamples, seq_len, max_sequence_length \in 1..MaxSeqLen :
         \E action_len_critic \in 1..seq_len :
            call = [fn |-> "rollout_score", rows |-> rows, seq_len |-> seq_len,
                    action_len_critic |-> action_len_critic,
                    max_sequence_length |-> max_sequence_length]

ScoreCall ==
    /\ call.fn = "rollout_score"
    /\ ret = NoCall
    /\ ret' = [fn |-> "rollout_score",
               out |-> rollout_score(call.rows, call.seq_len, call.action_len_critic,
                                     call.max_sequence_length)]
    /\ UNCHANGED <<call, famVars, rollVars, learnVars, lifeVars>>

NextScore == ScoreCall

SpecScore == InitScore /\ [][NextScore]_vars

MaxValue == 10
MaxClip == 2

RECURSIVE SumSeq(_)
SumSeq(xs) == IF xs = <<>> THEN 0 ELSE Head(xs) + SumSeq(Tail(xs))

\* torch.clamp(x, lo, hi)
Clamp(x, lo, hi) == IF x < lo THEN lo ELSE IF x > hi THEN hi ELSE x

MaxOf(a, b) == IF a >= b THEN a ELSE b
MinOf(a, b) == IF a <= b THEN a ELSE b

\* the value loss with torch.min in the place of torch.max
value_loss_min(old_values, values, rewards, critic_eps_clip) ==
    LET n == Len(values)
        value_loss_clipped == [i \in 1..n |->
            old_values[i] + Clamp(values[i] - old_values[i],
                                  0 - critic_eps_clip, critic_eps_clip)]
        value_loss1 == [i \in 1..n |-> (value_loss_clipped[i] - rewards[i])
                                       * (value_loss_clipped[i] - rewards[i])]
        value_loss2 == [i \in 1..n |-> (values[i] - rewards[i]) * (values[i] - rewards[i])]
        elements == [i \in 1..n |-> MinOf(value_loss1[i], value_loss2[i])]
    IN  [elements |-> elements, mean |-> [num |-> SumSeq(elements), den |-> n]]

\* trainer.py:645-656 on the flattened tensors; the mean is kept as a
\* fraction
value_loss(old_values, values, rewards, critic_eps_clip) ==
    LET n == Len(values)
        value_loss_clipped == [i \in 1..n |->
            old_values[i] + Clamp(values[i] - old_values[i],
                                  0 - critic_eps_clip, critic_eps_clip)]
        value_loss1 == [i \in 1..n |-> (value_loss_clipped[i] - rewards[i])
                                       * (value_loss_clipped[i] - rewards[i])]
        value_loss2 == [i \in 1..n |-> (values[i] - rewards[i]) * (values[i] - rewards[i])]
        elements == [i \in 1..n |-> MaxOf(value_loss1[i], value_loss2[i])]
    IN  [elements |-> elements, mean |-> [num |-> SumSeq(elements), den |-> n]]

\* one element over the whole range, or two elements over a short range
InitValueLoss ==
    /\ OthersIdle
    /\ ret = NoCall
    /\ \E critic_eps_clip \in 0..MaxClip :
         \/ \E o, v, r \in 0..MaxValue :
               call = [fn |-> "value_loss", old_values |-> <<o>>, values |-> <<v>>,
                       rewards |-> <<r>>, critic_eps_clip |-> critic_eps_clip]
         \/ \E o, v, r \in [1..2 -> 0..(MaxClip + 1)] :
               call = [fn |-> "value_loss", old_values |-> o, values |-> v,
                       rewards |-> r, critic_eps_clip |-> critic_eps_clip]

ValueLossCall ==
    /\ call.fn = "value_loss"
    /\ ret = NoCall
    /\ ret' = [fn |-> "value_loss",
               out |-> value_loss(call.old_values, call.values, call.rewards,
                                  call.critic_eps_clip)]
    /\ UNCHANGED <<call, famVars, rollVars, learnVars, lifeVars>>

NextValueLoss == ValueLossCall

SpecValueLoss == InitValueLoss /\ [][NextValueLoss]_vars

MaxAdvLen == 3
MaxAdv == 2

RECURSIVE Pow(_, _)
Pow(b, e) == IF e = 0 THEN 1 ELSE b * Pow(b, e - 1)

\* trainer.py:609-627, the shared-family branch on one row.  The mean is
\* kept exact: centered[i] is Len * (advantages[i] - mean).  torch's
\* Tensor.std() is the unbiased estimator, its divisor is the number of
\* elements minus one: on a single element it is 0/0, NaN.  std + eps is
\* positive whenever std is a number, so a quotient is finite then.
normalized_advantages(old_values, rewards, gamma) ==
    LET n == Len(old_values)
        discounted_rewards == [i \in 1..n |->
            SumSeq([k \in 1..(n - i + 1) |-> Pow(gamma, k - 1) * rewards[i + k - 1]])]
        advantages == [i \in 1..n |-> discounted_rewards[i] - old_values[i]]
        centered == [i \in 1..n |-> n * advantages[i] - SumSeq(advantages)]
        std == IF n - 1 = 0 THEN "nan"
               ELSE IF \A i \in 1..n : centered[i] = 0 THEN "zero" ELSE "positive"
    IN  [ raw |-> advantages,
          std |-> std,
          advantages |-> [i \in 1..n |->
                             IF std = "nan" THEN "nan"
                             ELSE IF centered[i] = 0 THEN "zero" ELSE "finite"] ]

InitNormalize ==
    /\ OthersIdle
    /\ ret = NoCall
    /\ \E n \in 1..MaxAdvLen, gamma \in 0..1 :
         \E old_values, rewards \in [1..n -> 0..MaxAdv] :
            call = [fn |-> "advantages", old_values |-> old_values,
                    rewards |-> rewards, gamma |-> gamma]

NormalizeCall ==
    /\ call.fn = "advantages"
    /\ ret = NoCall
    /\ ret' = [fn |-> "advantages",
               out |-> normalized_advantages(call.old_values, call.rewards, call.gamma)]
    /\ UNCHANGED <<call, famVars, rollVars, learnVars, lifeVars>>

NextNormalize == NormalizeCall

SpecNormalize == InitNormalize /\ [][NextNormalize]_vars

\* trainer.py:628-629, the branch of two model families, on the one row of a
\* mini-batch: rewards is [1, n] and old_values[:, -1] is [1], which
\* broadcasts over the positions of the row
plain_advantages(old_values, rewards) ==
    [j \in 1..Len(rewards) |-> rewards[j] - old_values[Len(old_values)]]

InitAdvantage ==
    /\ OthersIdle
    /\ ret = NoCall
    /\ \E n \in 1..MaxAdvLen :
         \E old_values, rewards \in [1..n -> 0..MaxAdv] :
            call = [fn |-> "plain_advantages", old_values |-> old_values,
                    rewards |-> rewards]

AdvantageCall ==
    /\ call.fn = "plain_advantages"
    /\ ret = NoCall
    /\ ret' = [fn |-> "plain_advantages",
               out |-> plain_advantages(call.old_values, call.rewards)]
    /\ UNCHANGED <<call, famVars, rollVars, learnVars, lifeVars>>

NextAdvantage == AdvantageCall

SpecAdvantage == InitAdvantage /\ [][NextAdvantage]_vars

MaxScore == 5
MaxRecords == 2

\* a JSON score: null or a number
NullScore == [null |-> TRUE]
Number(v) == [null |-> FALSE, v |-> v]

\* Python truthiness of a score: None and zero are false
Truthy(score) == ~score.null /\ score.v # 0

\* a float as a fraction
Float(num, den) == [num |-> num, den |-> den]

\* reward.py:108-117; idx counts from 0
RewardDataset_getitem(data, idx) ==
    LET user_input == data[idx + 1].user_input
        completion == data[idx + 1].completion
        score == IF Truthy(data[idx + 1].score)
                 THEN Float(data[idx + 1].score.v, 1)
                 ELSE Float(5, 2)
    IN  <<user_input \o completion, score>>

\* the records of a reward dataset file
DatasetRecords ==
    [ user_input : {<<>>, <<"u">>}, completion : {<<>>, <<"c">>},
      score : {NullScore} \cup {Number(v) : v \in 0..MaxScore} ]

InitGetItem ==
    /\ OthersIdle
    /\ ret = NoCall
    /\ \E n \in 1..MaxRecords :
         \E data \in [1..n -> DatasetRecords], idx \in 0..(n - 1) :
            call = [fn |-> "__getitem__", data |-> data, idx |-> idx]

GetItemCall ==
    /\ call.fn = "__getitem__"
    /\ ret = NoCall
    /\ ret' = [fn |-> "__getitem__", item |-> RewardDataset_getitem(call.data, call.idx)]
    /\ UNCHANGED <<call, famVars, rollVars, learnVars, lifeVars>>

NextGetItem == GetItemCall

SpecGetItem == InitGetItem /\ [][NextGetItem]_vars

\* The reward trainer is started on a checkpoint that an earlier process
\* saved at (epoch, step).  The trainer is as RewardTrainer.__init__ builds
\* it (reward.py:159-204); in DeepSpeed mode its engine is None, as
\* BaseTrainer.__init__ leaves it, or the one setup_deepspeed
\* (base_model.py:546-569) creates, which the checkpoint was written with.
InitResume ==
    /\ PureIdle
    /\ FamIdle
    /\ RollIdle
    /\ lrn = NoLearn
    /\ calls = 0
    /\ trn = NoTrain
    /\ config \in {c \in RewardConfigs : c.mode \in {"native", "deepspeed"}}
    /\ \E lora \in BOOLEAN, engine \in {None, [engine |-> TRUE]} :
         /\ config.mode = "native" => engine = None
         /\ self = [NewRewardTrainer(config.mode, lora) EXCEPT !.model_engine = engine]
         /\ \E epoch \in 0..(config.epochs - 1), step \in 0..(config.n_batches - 1) :
              LET saver == RewardStep([NewRewardTrainer(config.mode, lora)
                                         EXCEPT !.model_engine =
                                             IF config.mode = "deepspeed"
                                             THEN [engine |-> TRUE] ELSE None])
              IN  disk = [NoDisk EXCEPT !.ckpt = save_checkpoint(saver, epoch, step).value]

NextResume == RewardTrainStart \/ RewardIteration \/ RewardEpochEnd

SpecResume == InitResume /\ [][NextResume]_vars

MaxSaved == 2

\* the values a state_dict entry of a checkpoint file can hold
StateDicts == {[optim_steps |-> 1], [sched_steps |-> 1]}

\* training statistics with one recorded loss
SomeStats == [NoStats EXCEPT !.training_loss = <<[item |-> "loss"]>>]

\* What torch.load or the DeepSpeed engine can find at the checkpoint path
\* (base_model.py:697-701): a file is read as it is, whatever wrote it, so
\* besides the dictionaries save_checkpoint writes there are those whose
\* entries optimizer and scheduler are the other way round.
CheckpointFiles(kind, mode) ==
    IF mode = "deepspeed"
    THEN IF kind = "rl"
         THEN [ format : {"deepspeed"},
                client_state : [episode : 1..MaxSaved],
                engine : [actor : {1}, critic : {1},
                          optimizer : {[optim_steps |-> 1]},
                          scheduler : {[sched_steps |-> 1]}] ]
         ELSE [ format : {"deepspeed"},
                client_state : [epoch : 0..MaxSaved, step : 0..MaxSaved],
                engine : [model : {1},
                          optimizer : {[optim_steps |-> 1]},
                          scheduler : {[sched_steps |-> 1]}] ]
    ELSE IF kind = "rl"
         THEN [ format : {"torch"}, model : {1}, critic : {1},
                optimizer : StateDicts, scheduler : StateDicts,
                training_stats : {NoStats, SomeStats},
                episode : 1..MaxSaved,
                lora_peft : BOOLEAN, critic_lora_peft : BOOLEAN ]
         ELSE [ format : {"torch"}, model : {1},
                optimizer : StateDicts, scheduler : StateDicts,
                training_stats : {NoStats, SomeStats},
                epoch : 0..MaxSaved, step : 0..MaxSaved,
                lora_peft : BOOLEAN ]

\* a trainer at the call of load_checkpoint: as built, or, for the
\* actor-critic trainer, after a learn() that has set the scheduler, the
\* engine and the accelerator (trainer.py:527-542)
LoadTrainers(kind, mode) ==
    IF kind = "rl"
    THEN LET built == {NewRLTrainer(mode, la, lc) : la, lc \in BOOLEAN}
         IN  built \cup {LearnSetupStep(tr, <<1>>, 1, 1).self : tr \in built}
    ELSE {NewRewardTrainer(mode, lora) : lora \in BOOLEAN}

InitLoad ==
    /\ OthersIdle
    /\ ret = NoCall
    /\ \E kind \in {"rl", "reward"}, mode \in Modes, corrupted \in BOOLEAN :
         \E tr \in LoadTrainers(kind, mode), ckpt \in CheckpointFiles(kind, mode) :
            call = [fn |-> "load_checkpoint", tr |-> tr,
                    d |-> [ckpt |-> ckpt, corrupted |-> corrupted, log |-> <<>>]]

LoadCall ==
    /\ call.fn = "load_checkpoint"
    /\ ret = NoCall
    /\ ret' = [fn |-> "load_checkpoint", out |-> load_checkpoint(call.tr, call.d)]
    /\ UNCHANGED <<call, famVars, rollVars, learnVars, lifeVars>>

NextLoad == LoadCall

SpecLoad == InitLoad /\ [][NextLoad]_vars

(***************************************************************************)
(* Claims on check_model_family                                            *)
(***************************************************************************)

\* The normalized base name as the specification words it: the identifier
\* with the namespace prefix (up to the first "/") stripped, then the text
\* before the first hyphen.
AfterNamespace(n) == IF Contains(n, "/") THEN SubSeq(n, FirstIndex(n, "/") + 1, Len(n)) ELSE n
BeforeHyphen(n) == IF Contains(n, "-") THEN SubSeq(n, 1, FirstIndex(n, "-") - 1) ELSE n
NormalizedBase(n) == BeforeHyphen(AfterNamespace(n))

\* C7: check_model_family is symmetric: the result for (config1, config2)
\* equals the result for (config2, config1), for every pair of names.
C7_Symmetric ==
    famPc = "done" => famResult = check_model_family(config2, config1)

\* a call on two different catalog names, one of them namespaced, that are
\* of the same family
C7_Witness ==
    /\ famPc = "done"
    /\ config1 # config2
    /\ config1 \in hf_models /\ config2 \in hf_models
    /\ Contains(config2, "/") /\ ~Contains(config1, "/")
    /\ famResult = TRUE

\* C8: both names in the catalog: true exactly when the normalized base
\* names are equal; neither in the catalog: true; exactly one: false.
C8_Policy ==
    famPc = "done" =>
        famResult =
            (IF (config1 \in hf_models) /\ (config2 \in hf_models)
             THEN NormalizedBase(config1) = NormalizedBase(config2)
             ELSE (config1 \notin hf_models) /\ (config2 \notin hf_models))

\* a call with exactly one name in the catalog, answered false
C8_Witness ==
    /\ famPc = "done"
    /\ config1 \in hf_models
    /\ config2 \notin hf_models
    /\ famResult = FALSE

(***************************************************************************)
(* Claims on checkpoints and resuming                                      *)
(***************************************************************************)

\* load_checkpoint has been called by the current train() and found a
\* checkpoint file
FoundCheckpoint == trn.pc # "idle" /\ trn.load # "not_called" /\ trn.found.ckpt # None

\* the cursor a checkpoint was saved at
SavedCursor(ckpt) ==
    IF ckpt.format = "deepspeed"
    THEN IF "episode" \in DOMAIN ckpt.client_state
         THEN <<ckpt.client_state.episode, 0>>
         ELSE <<ckpt.client_state.epoch, ckpt.client_state.step>>
    ELSE IF "episode" \in DOMAIN ckpt THEN <<ckpt.episode, 0>> ELSE <<ckpt.epoch, ckpt.step>>

\* the model parameters a checkpoint holds, and those of a trainer
SavedParams(ckpt) ==
    IF ckpt.format = "deepspeed"
    THEN IF "actor" \in DOMAIN ckpt.engine
         THEN <<ckpt.engine.actor, ckpt.engine.critic>> ELSE <<ckpt.engine.model>>
    ELSE IF "critic" \in DOMAIN ckpt THEN <<ckpt.model, ckpt.critic>> ELSE <<ckpt.model>>

Params(tr) == IF tr.kind = "rl" THEN <<tr.actor, tr.critic>> ELSE <<tr.model>>

CursorGeq(a, b) == a[1] > b[1] \/ (a[1] = b[1] /\ a[2] >= b[2])

\* a lora flag stored in the checkpoint differs from the trainer's
LoraDiffers(tr, ckpt) ==
    /\ ckpt.format = "torch"
    /\ \/ ckpt.lora_peft # tr.lora_peft
       \/ tr.kind = "rl" /\ ckpt.critic_lora_peft # tr.critic_lora_peft

\* the timesteps of the episodes first..(num_episodes - 1), in loop order
RECURSIVE EpisodeTimesteps(_, _, _)
EpisodeTimesteps(first, num_episodes, max_timesteps) ==
    IF first >= num_episodes THEN <<>>
    ELSE [t \in 1..max_timesteps |-> <<first, t - 1>>]
         \o EpisodeTimesteps(first + 1, num_episodes, max_timesteps)

\* C1: when RLTrainer.train() starts again and finds the readable checkpoint
\* that save_checkpoint wrote at the end of episode e (lora flags unchanged),
\* no timestep of an episode 0..e is executed again, and when train() is
\* complete the timesteps executed are those of the episodes after e, each
\* exactly once.
C1_ResumeSkips ==
    (config # None /\ config.kind = "rl" /\ FoundCheckpoint /\ ~trn.found.corrupted
       /\ ~LoraDiffers(self, trn.found.ckpt))
    => LET e == SavedCursor(trn.found.ckpt)[1]
       IN  /\ \A k \in 1..Len(trn.ran) : trn.ran[k][1] > e
           /\ trn.pc = "done" =>
                trn.ran = EpisodeTimesteps(e + 1, config.num_episodes, config.max_timesteps)

\* C2: when load_checkpoint is called on a readable checkpoint whose lora
\* flags match the trainer's, it returns a cursor greater than or equal to
\* the cursor the checkpoint was saved at, and the trainer's model
\* parameters are then those stored in the checkpoint.
C2_RoundTrip ==
    (FoundCheckpoint /\ ~trn.found.corrupted /\ ~LoraDiffers(self, trn.found.ckpt)
       /\ trn.ran = <<>>)
    => /\ trn.load = "returned"
       /\ CursorGeq(trn.loaded, SavedCursor(trn.found.ckpt))
       /\ Params(self) = SavedParams(trn.found.ckpt)

\* C3: when load_checkpoint finds a checkpoint whose file is corrupted, it
\* returns (0, 0) and does not raise, whatever the trainer and the mode.
C3_CorruptedFreshStart ==
    (FoundCheckpoint /\ trn.found.corrupted)
    => trn.load = "returned" /\ trn.loaded = <<0, 0>>

\* a corrupted checkpoint was found by a trainer whose DeepSpeed engine is
\* live, and load_checkpoint returned (0, 0)
C3_Witness ==
    /\ FoundCheckpoint
    /\ trn.found.corrupted
    /\ trn.load = "returned"
    /\ trn.loaded = <<0, 0>>
    /\ self.mode = "deepspeed"
    /\ self.model_engine # None

\* C4: when load_checkpoint is called on a readable checkpoint in which the
\* saved lora flag of the actor, or that of the critic, differs from the
\* flag of the trainer's model, it returns (0, 0).
C4_LoraMismatch ==
    (FoundCheckpoint /\ ~trn.found.corrupted /\ LoraDiffers(self, trn.found.ckpt))
    => trn.load = "returned" /\ trn.loaded = <<0, 0>>

(***************************************************************************)
(* Claims on the rollout timestep                                          *)
(***************************************************************************)

\* the number of tokens at the end of seq that are generated tokens
RECURSIVE TrailingGenerated(_)
TrailingGenerated(seq) ==
    IF seq = <<>> \/ seq[Len(seq)] # "a" THEN 0
    ELSE 1 + TrailingGenerated(SubSeq(seq, 1, Len(seq) - 1))

(***************************************************************************)
(* Claims on learn()                                                       *)
(***************************************************************************)

NanErrors == {"Policy Loss is nan", "Value loss is nan"}

\* the number of mini-batches completed before the current one
BatchesBefore(frame) == frame.epoch * Len(frame.batches) + frame.k

\* C5: if the policy loss or the value loss of a mini-batch is NaN, learn()
\* raises ValueError at once: no backward pass, optimizer step, scheduler
\* step or training-stats append for that mini-batch, and no later
\* mini-batch or epoch is processed.
C5_NanRaises ==
    (lrn.pc \in {"run", "raised", "done"}
        /\ (lrn.policy_loss = "nan" \/ lrn.value_loss = "nan")) =>
            /\ lrn.pc = "raised"
            /\ lrn.err \in NanErrors
            /\ \A i \in 1..Len(lrn.steps) :
                   <<lrn.steps[i].epoch, lrn.steps[i].k>> # <<lrn.epoch, lrn.k>>
            /\ Len(lrn.steps) = BatchesBefore(lrn)
            /\ self.optimizer.optim_steps = BatchesBefore(lrn)
            /\ self.scheduler.sched_steps = BatchesBefore(lrn)
            /\ Len(self.training_stats.training_loss) = BatchesBefore(lrn)
            /\ Len(self.training_stats.value_loss) <= BatchesBefore(lrn)
            /\ ~ENABLED LearnBatch
            /\ ~ENABLED LearnEnd

\* learn() has raised on a NaN value loss after at least one mini-batch
\* was trained on
C5_Witness ==
    /\ lrn.pc = "raised"
    /\ lrn.err = "Value loss is nan"
    /\ Len(lrn.steps) >= 1

\* the mini-batches that went through the joint forward pass in epoch e
RECURSIVE ForwardedIn(_, _)
ForwardedIn(fwd, e) ==
    IF fwd = <<>> THEN <<>>
    ELSE (IF Head(fwd).epoch = e THEN <<Head(fwd).batch>> ELSE <<>>)
             \o ForwardedIn(Tail(fwd), e)

RECURSIVE Flatten(_)
Flatten(ss) == IF ss = <<>> THEN <<>> ELSE Head(ss) \o Flatten(Tail(ss))

\* C6: for a buffer whose size is a multiple of the batch size B >= 1, every
\* epoch of learn() processes exactly size/B mini-batches in insertion
\* order, every record in exactly one of them, and each mini-batch goes
\* through the joint forward pass (a run that a NaN loss ends is set aside).
C6_Partition ==
    (lrn.pc \in {"raised", "done"}
        /\ Len(lrn.memories) % lrn.batch_size = 0
        /\ lrn.err \notin NanErrors) =>
            /\ lrn.pc = "done"
            /\ \A e \in 0..(lrn.epochs - 1) :
                   LET f == ForwardedIn(lrn.forwarded, e)
                   IN  /\ Len(f) = Len(lrn.memories) \div lrn.batch_size
                       /\ Flatten(f) = lrn.memories
                       /\ \A i \in 1..Len(f) : Len(f[i]) = lrn.batch_size

\* C23: in each of the three modes, every mini-batch of learn() that reaches
\* the backward pass runs it on the combined loss and takes one optimizer
\* step, so that after n such mini-batches the optimizer has stepped n times
\* and the actor and the critic have each been updated n times.
C23_CombinedBackward ==
    lrn.pc \in {"run", "raised", "done"} =>
        /\ \A i \in 1..Len(lrn.steps) : lrn.steps[i].backward = "loss"
        /\ self.optimizer.optim_steps = Len(lrn.steps)
        /\ self.actor = Len(lrn.steps)
        /\ self.critic = Len(lrn.steps)

\* C30: after n mini-batches of learn() have been processed, the
\* training-loss statistics hold n entries, each the combined loss, and the
\* value-loss statistics hold n entries, each the value loss.
C30_StatsPerBatch ==
    lrn.pc \in {"run", "raised", "done"} =>
        /\ self.training_stats.training_loss = [i \in 1..Len(lrn.steps) |-> [item |-> "loss"]]
        /\ self.training_stats.value_loss = [i \in 1..Len(lrn.steps) |-> [item |-> "value_loss"]]

\* C9: every Memory record stored by the rollout holds exactly
\* action_len_critic reward values, and the last of them is the reward
\* written to the conversation log for that sample.
C9_RewardsPerRecord ==
    rollPc = "stored" =>
        \A i \in 1..Len(roll_memories) :
            /\ Len(roll_memories[i].rewards) = roll_memories[i].action_len_critic
            /\ roll_memories[i].rewards[Len(roll_memories[i].rewards)] = roll_log[i].reward

\* C10: action_len_actor is the number of tokens the actor generated and
\* action_len_critic is the number of trailing positions of the critic-side
\* sequence that are generated tokens, with a shared tokenizer and with a
\* re-encoded critic sequence alike.
C10_ActionLens ==
    rollPc \in {"generated", "stored"} =>
        /\ gen.action_len_actor = TrailingGenerated(gen.sequences_actor)
        /\ gen.action_len_critic = TrailingGenerated(gen.sequences_critic)

(***************************************************************************)
(* Claims on the loop of RLTrainer.train()                                 *)
(***************************************************************************)

\* C12: in RLTrainer.train() learn() is invoked exactly when update_timesteps
\* rollout timesteps have run since the previous learning phase, the count
\* carrying over episode boundaries, with the records of those timesteps;
\* when learn() has returned the buffer is empty, the timestep counter is 0
\* and the learning-iteration counter is one higher.
C12_LearnCadence ==
    [][ /\ (trn.pc = "timestep" /\ trn'.pc = "learn")
           => /\ trn'.cnt_timesteps = config.update_timesteps
              /\ Len(trn'.ran) = (trn'.cnt_learn_iter + 1) * config.update_timesteps
              /\ lrn'.pc = "call"
              /\ lrn'.memories = trn'.memories
              /\ Len(trn'.memories) = config.num_examples * config.update_timesteps
        /\ (trn.pc = "timestep" /\ trn'.pc \in {"timestep", "episode_end"})
           => /\ trn'.cnt_timesteps = trn.cnt_timesteps + 1
              /\ trn'.cnt_timesteps < config.update_timesteps
              /\ lrn' = lrn
        /\ (trn.pc = "learn" /\ trn'.pc \in {"timestep", "episode_end"})
           => /\ trn'.memories = <<>>
              /\ trn'.cnt_timesteps = 0
              /\ trn'.cnt_learn_iter = trn.cnt_learn_iter + 1
      ]_vars

\* the first learning phase has returned, and the update_timesteps timesteps
\* before it lie in two episodes
C12_Witness ==
    /\ trn.pc \in {"timestep", "episode_end"}
    /\ trn.cnt_learn_iter = 1
    /\ trn.cnt_timesteps = 0
    /\ trn.memories = <<>>
    /\ Len(trn.ran) = config.update_timesteps
    /\ trn.ran[1][1] # trn.ran[Len(trn.ran)][1]

\* the learning phases completed in the running train() before the timestep
\* that is about to run: one after every update_timesteps timesteps
LearnPhasesDone == Len(trn.ran) \div config.update_timesteps

\* the step is the body of one rollout timestep of RLTrainer.train()
IsRolloutTimestep ==
    /\ config # None
    /\ config.kind = "rl"
    /\ trn.pc = "timestep"
    /\ trn'.pc \in {"timestep", "learn", "episode_end"}
    /\ trn' # trn

\* C18: a rollout timestep of RLTrainer.train() appends exactly num_examples
\* entries to the conversation log and leaves the earlier entries as they
\* are; the entry of index i is the one of the sample of index i, which is
\* stored as the memory of index i of the timestep: it carries that sample's
\* prompt, its completion, the reward of its last position, and the number of
\* learning phases this train() has completed before the timestep
C18_LogPerTimestep ==
    [][ IsRolloutTimestep =>
          LET old == self.conversation_log
              new == self'.conversation_log
              n   == config.num_examples
              at  == Len(trn.memories)
          IN  /\ Len(new) = Len(old) + n
              /\ SubSeq(new, 1, Len(old)) = old
              /\ Len(trn'.memories) = at + n
              /\ \A i \in 1..n :
                   LET entry == new[Len(old) + i]
                       m     == trn'.memories[at + i]
                   IN  /\ m.sample = i
                       /\ entry.prompt = Prompt(m.episode, m.timestep, i)
                       /\ entry.completion = Completion(m.episode, m.timestep, i)
                       /\ entry.reward = FinalReward(m.episode, m.timestep, i)
                       /\ entry.iteration = LearnPhasesDone
                       /\ entry.iteration = trn.cnt_learn_iter ]_vars

\* a timestep that follows a learning phase has logged two samples: the log
\* ends with the entries of sample 1 and sample 2, both of iteration 1
C18_Witness ==
    /\ self # None
    /\ config.kind = "rl"
    /\ config.num_examples = 2
    /\ trn.pc \in {"timestep", "learn", "episode_end"}
    /\ Len(self.conversation_log) >= 4
    /\ LET log == self.conversation_log
           k   == Len(self.conversation_log)
       IN  /\ log[k].iteration = 1
           /\ log[k - 1].iteration = 1
           /\ log[k].prompt.input_of[3] = 2
           /\ log[k - 1].prompt.input_of[3] = 1
           /\ log[k].reward = FinalReward(log[k].prompt.input_of[1],
                                          log[k].prompt.input_of[2], 2)

\* the step is a call of RLTrainer.train() up to the first test of its
\* episode loop
IsRLTrainStart ==
    /\ config # None
    /\ config.kind = "rl"
    /\ calls' = calls + 1

\* C19: RLTrainer.train() empties the conversation log exactly when
\* load_checkpoint has returned start episode 0, and it does so before any
\* timestep has run; when load_checkpoint has returned an episode greater
\* than 0, or has not returned, the entries logged before are all kept, and
\* no later step of train() removes an entry
C19_ClearIffFresh ==
    [][ /\ IsRLTrainStart =>
             /\ trn'.ran = <<>>
             /\ IF trn'.load = "returned" /\ trn'.loaded[1] = 0
                THEN /\ self'.conversation_log = <<>>
                     /\ disk'.log = <<>>
                ELSE /\ self'.conversation_log = self.conversation_log
                     /\ disk'.log = disk.log
        /\ (~IsRLTrainStart /\ config # None /\ config.kind = "rl"
               /\ self # None /\ self' # None) =>
             /\ Len(self'.conversation_log) >= Len(self.conversation_log)
             /\ SubSeq(self'.conversation_log, 1, Len(self.conversation_log))
                   = self.conversation_log ]_vars

\* train() has resumed from an episode greater than 0 and no timestep has run
\* yet: the log still holds the entries of the earlier run
C19_Witness ==
    /\ self # None
    /\ config.kind = "rl"
    /\ trn.pc = "timestep"
    /\ trn.load = "returned"
    /\ trn.loaded[1] > 0
    /\ trn.ran = <<>>
    /\ Len(self.conversation_log) > 0
    /\ disk.log = self.conversation_log

\* a checkpoint written by the native branch of save_checkpoint for the
\* actor-critic trainer
IsActorCriticCheckpoint(ckpt) ==
    /\ ckpt # None
    /\ ckpt.format = "torch"
    /\ "critic" \in DOMAIN ckpt

\* C20: when save_checkpoint writes the actor-critic checkpoint, its entry
\* optimizer is the optimizer's state and its entry scheduler the scheduler's
\* state of that moment; and when load_checkpoint reads such a checkpoint
\* that is readable, it does not raise, and the optimizer's state is then the
\* one of the entry optimizer and the scheduler's state the one of the entry
\* scheduler
C20_OptimizerSchedulerEntries ==
    [][ /\ (self # None /\ disk'.ckpt # disk.ckpt
               /\ IsActorCriticCheckpoint(disk'.ckpt)) =>
             /\ disk'.ckpt.optimizer = self.optimizer
             /\ disk'.ckpt.scheduler = self.scheduler
        /\ (IsRLTrainStart /\ trn'.load # "not_called"
               /\ IsActorCriticCheckpoint(disk.ckpt) /\ ~disk.corrupted) =>
             /\ trn'.load = "returned"
             /\ self'.optimizer = disk.ckpt.optimizer
             /\ self'.scheduler = disk.ckpt.scheduler ]_vars

(***************************************************************************)
(* Claims on single calls                                                  *)
(***************************************************************************)

\* the modes whose machinery a trainer has switched on
ActiveModes(tr) ==
    {m \in Modes : \/ m = "deepspeed" /\ tr.deepspeed_enable
                   \/ m = "accelerate" /\ tr.accelerate_enable
                   \/ m = "native" /\ ~tr.deepspeed_enable /\ ~tr.accelerate_enable}

\* the backward/step branch of a mode
BranchOf(mode) ==
    IF mode = "deepspeed" THEN "model_engine"
    ELSE IF mode = "accelerate" THEN "accelerator" ELSE "torch"

\* C13: constructing a trainer with accelerate_enable and deepspeed_enable
\* both set raises ValueError, and so does deepspeed_enable with a config
\* path that is None or names no file; every constructed trainer has exactly
\* one active mode, never both a DeepSpeed engine and an accelerator, and
\* every mini-batch of learn() takes the backward/step branch of that mode.
C13_OneMode ==
    /\ ret.fn = "__init__"
       => /\ ret.raised <=> \/ call.accelerate_enable /\ call.deepspeed_enable
                            \/ call.deepspeed_enable /\ call.deepspeed_config_path # "exists"
          /\ ret.raised => (ret.err = "ValueError" /\ self = None)
    /\ (call.fn = "__init__" /\ self # None)
       => /\ Cardinality(ActiveModes(self)) = 1
          /\ ~(self.model_engine # None /\ self.accelerator # None)
          /\ lrn.pc \in {"run", "done", "raised"}
             => \A k \in 1..Len(lrn.steps) :
                   \A m \in ActiveModes(self) : lrn.steps[k].via = BranchOf(m)

\* a DeepSpeed trainer was constructed and learn() has taken a step
C13_Witness ==
    /\ ret.fn = "__init__"
    /\ ~ret.raised
    /\ self.deepspeed_enable
    /\ lrn.pc = "run"
    /\ Len(lrn.steps) >= 1

\* the trailing k positions of a sequence of length n
TrailingPositions(n, k) == [j \in 1..k |-> n - k + j]

\* C11: ActorCritic.forward returns the logits of exactly the trailing
\* action_len_actor positions of the actor sequence and the values of
\* exactly the trailing action_len_critic positions of the critic sequence,
\* for every action length from 0 to the sequence length; no prompt
\* position is returned.
C11_TrailingOnly ==
    ret.fn = "forward"
    => /\ ret.value.actions_logits =
              TrailingPositions(Len(call.sequences_actor), call.action_len_actor)
       /\ ret.value.values =
              TrailingPositions(Len(call.sequences_critic), call.action_len_critic)
       /\ \A j \in 1..Len(ret.value.actions_logits) :
              call.sequences_actor[ret.value.actions_logits[j]] = "a"
       /\ \A j \in 1..Len(ret.value.values) :
              call.sequences_critic[ret.value.values[j]] = "a"

\* C14: get_reward raises ValueError, without a forward pass, when the
\* sequence is longer than config.max_sequence_length; otherwise it runs the
\* forward pass once and returns, for every row, the reward of the last
\* position.
C14_LengthGuard ==
    ret.fn = "get_reward"
    => IF call.seq_len > call.max_sequence_length
       THEN ret.out.raised /\ ret.out.err = "ValueError" /\ ret.out.forward_calls = 0
       ELSE /\ ~ret.out.raised
            /\ ret.out.forward_calls = 1
            /\ ret.out.value = [i \in 1..call.rows |-> <<i, call.seq_len>>]

\* a sequence of exactly the maximum length was scored
C14_Witness ==
    /\ ret.fn = "get_reward"
    /\ call.seq_len = call.max_sequence_length
    /\ call.rows > 1
    /\ ~ret.out.raised

\* C29: when the sequence the rollout hands to the reward model is longer
\* than config.max_sequence_length, the scoring step raises before the
\* reward model's forward pass, and no Memory and no conversation-log entry
\* comes out of it.
C29_RolloutLengthGuard ==
    (ret.fn = "rollout_score" /\ call.seq_len > call.max_sequence_length) =>
        /\ ret.out.raised
        /\ ret.out.forward_calls = 0
        /\ ret.out.memories = <<>>
        /\ ret.out.log = <<>>

\* x squared
Sq(x) == x * x

\* C15: every element of the value loss is
\* max((old_value + clamp(value - old_value, -eps, +eps) - reward)^2,
\* (value - reward)^2), hence at least the unclipped squared error; the batch
\* value loss is the mean of the elements; old_value 0, value 5, eps 1,
\* reward 10 give 81.
C15_ValueLoss ==
    ret.fn = "value_loss"
    => LET n == Len(call.values)
           eps == call.critic_eps_clip
       IN  /\ Len(ret.out.elements) = n
           /\ \A i \in 1..n :
                LET o == call.old_values[i]
                    v == call.values[i]
                    r == call.rewards[i]
                    d == v - o
                    c == IF d > eps THEN eps ELSE IF d < 0 - eps THEN 0 - eps ELSE d
                IN  /\ ret.out.elements[i] >= Sq(o + c - r)
                    /\ ret.out.elements[i] >= Sq(v - r)
                    /\ ret.out.elements[i] \in {Sq(o + c - r), Sq(v - r)}
           /\ ret.out.mean.den = n
           /\ ret.out.mean.num = SumSeq(ret.out.elements)
           /\ (call.old_values = <<0>> /\ call.values = <<5>> /\ call.rewards = <<10>>
                 /\ eps = 1)
              => ret.out.elements = <<81>>

\* the example of the claim has been computed
C15_Witness ==
    /\ ret.fn = "value_loss"
    /\ call.old_values = <<0>> /\ call.values = <<5>> /\ call.rewards = <<10>>
    /\ call.critic_eps_clip = 1
    /\ ret.out.mean = [num |-> 81, den |-> 1]

\* C16: in the shared-family branch, a batch whose raw advantages are all
\* equal is normalized to finite values: the standard deviation is a number,
\* the divisor std + 1e-8 is not zero, and no element is NaN or infinite.
C16_FiniteNormalize ==
    (ret.fn = "advantages"
       /\ \A i, j \in 1..Len(ret.out.raw) : ret.out.raw[i] = ret.out.raw[j])
    => /\ ret.out.std # "nan"
       /\ \A i \in 1..Len(ret.out.advantages) : ret.out.advantages[i] # "nan"

\* C17: item idx of a RewardDataset is (user_input followed by completion,
\* score): the record's own score as a float whenever the stored score is
\* not null, and 2.5 exactly when it is null.
C17_Item ==
    ret.fn = "__getitem__"
    => LET record == call.data[call.idx + 1]
       IN  /\ ret.item[1] = record.user_input \o record.completion
           /\ ~record.score.null => ret.item[2] = Float(record.score.v, 1)
           /\ record.score.null <=> ret.item[2] = Float(5, 2)

\* the iterations (epoch, i) of the loops of RewardTrainer.train() that come
\* after the cursor, in loop order
RECURSIVE IterationsAfter(_, _, _)
IterationsAfter(cursor, epochs, n_batches) ==
    LET next == IF cursor[2] + 1 < n_batches
                THEN <<cursor[1], cursor[2] + 1>>
                ELSE <<cursor[1] + 1, 0>>
    IN  IF next[1] >= epochs THEN <<>>
        ELSE <<next>> \o IterationsAfter(next, epochs, n_batches)

C26_BufferAtLearn ==
    [][ /\ (config.kind = "rl" /\ trn.pc = "timestep" /\ trn'.pc = "learn") =>
             /\ lrn'.pc = "call"
             /\ Len(lrn'.memories) = config.num_examples * config.update_timesteps
             /\ Len(lrn'.memories) % config.batch_size = 0
        /\ (config.kind = "rl" /\ trn'.pc # "idle"
               /\ (config.num_examples * config.update_timesteps) % config.batch_size # 0) =>
             /\ trn'.pc = "raised"
             /\ trn'.err = "AssertionError"
             /\ trn'.load = "not_called"
             /\ trn'.ran = <<>> ]_vars

\* learn() has been invoked with a buffer of 4 records, two mini-batches of 2
C26_Witness ==
    /\ config.kind = "rl"
    /\ trn.pc = "learn"
    /\ lrn.pc = "call"
    /\ Len(lrn.memories) = 4
    /\ config.batch_size = 2
    /\ config.num_examples = 2

\* C27: when RLTrainer.train() has run to completion the experience buffer
\* is empty and no timestep is left uncounted towards a learning phase,
\* whether load_checkpoint returned episode 0 or a later episode.
C27_BufferEmptyAtEnd ==
    (config.kind = "rl" /\ trn.pc = "done") =>
        /\ trn.memories = <<>>
        /\ trn.cnt_timesteps = 0

\* C24: when RLTrainer.train() calls load_checkpoint and a checkpoint is
\* found, the objects the call dereferences have been set before: the
\* scheduler is not None and, in DeepSpeed mode, the model engine is not
\* None.
C24_InitialisedBeforeLoad ==
    [][ (IsRLTrainStart /\ trn'.load # "not_called" /\ disk.ckpt # None) =>
          /\ self.scheduler # None
          /\ self.deepspeed_enable => self.model_engine # None ]_vars

\* what a checkpoint can overwrite in a trainer: the optimizer's state, the
\* scheduler's state, the model parameters and the training statistics
Restorable(tr) == <<tr.optimizer, tr.scheduler, Params(tr), tr.training_stats>>

\* the step is a call of train() in which load_checkpoint finds a checkpoint
\* and rejects it: the file is corrupted, or a lora flag stored in it
\* differs from the trainer's, and (0, 0) is returned
IsRejectedLoad ==
    /\ self # None
    /\ calls' = calls + 1
    /\ disk.ckpt # None
    /\ disk.corrupted \/ LoraDiffers(self, disk.ckpt)
    /\ trn'.load = "returned"
    /\ trn'.loaded = <<0, 0>>

\* C22: when load_checkpoint returns (0, 0) for a checkpoint that is
\* corrupted or whose lora flag differs, the optimizer's state, the
\* scheduler's state, the model parameters and the training statistics of
\* the trainer are after the call what they were before it.
C22_RejectedLeavesState ==
    [][ IsRejectedLoad => Restorable(self') = Restorable(self) ]_vars

(***************************************************************************)
(* Claims on single calls of load_checkpoint                               *)
(***************************************************************************)

\* load_checkpoint has returned the cursor of the checkpoint it was given,
\* and not the fresh start (0, 0)
LoadedCursor ==
    /\ ret.fn = "load_checkpoint"
    /\ ~ret.out.raised
    /\ ret.out.value # <<0, 0>>

C28_PlainAdvantage ==
    ret.fn = "plain_advantages" =>
        /\ Len(ret.out) = Len(call.rewards)
        /\ \A j \in 1..Len(ret.out) :
               ret.out[j] = call.rewards[Len(call.rewards)]
                              - call.old_values[Len(call.old_values)]

====
